---- MODULE Spec2Model ----
(***************************************************************************)
(* A model of deepts' data layer:                                          *)
(*   - SliceDataset        (src/src/deepts/data/_slicedataset.py)          *)
(*   - TimeseriesFeatures  (src/src/deepts/data/_tsdataset.py)             *)
(*   - TimeseriesDataset   (src/src/deepts/data/_tsdataset.py)             *)
(*                                                                         *)
(* Python values are encoded as follows.  A Python sequence (list or       *)
(* numpy array) is a TLA+ sequence read with 0-based positions through At. *)
(* An optional integer is <<>> (None) or <<k>>.  Objects that the code     *)
(* shares by reference (role lists, encoder dictionaries) live in heaps    *)
(* and are named by their address.                                         *)
(***************************************************************************)
EXTENDS Integers, Sequences, FiniteSets, TLC

VARIABLES
    \* ---- SliceDataset ----
    numpy_has_bool, \* whether the installed numpy defines the attribute np.bool
    rootcls,        \* class of the root view the caller built
    self,           \* the SliceDataset receiving __getitem__ calls
    arg,            \* the index given to the last __getitem__ call on self
    out,            \* what that call produced
    parent,         \* <<[view, i]>>: the call view[i], i a boolean mask, that made self
    \* ---- TimeseriesFeatures ----
    tf_args,        \* the constructor arguments of a TimeseriesFeatures
    tf,             \* the TimeseriesFeatures object (its vars())
    tf_pc,          \* "new" before __post_init__ has run, "ready" after
    \* ---- TimeseriesDataset ----
    lists,          \* heap of Python list objects (role lists)
    encs,           \* heap of categorical encoder dictionaries
    datasets,       \* the TimeseriesDataset objects built so far
    pf_fits_in_place, \* whether the installed windowing library fits the encoder dict it is handed
    params,         \* <<>> or <<dict>>: the last get_parameters() result held by the caller
    params_of,      \* index of the dataset that produced params
    op              \* the last TimeseriesDataset operation

slice_vars == <<numpy_has_bool, rootcls, self, arg, out, parent>>
tf_vars == <<tf_args, tf, tf_pc>>
ts_vars == <<lists, encs, datasets, pf_fits_in_place, params, params_of, op>>
vars == <<slice_vars, tf_vars, ts_vars>>

----------------------------------------------------------------------------
(* Bounds of the model *)

\* number of samples of the wrapped torch dataset
DatasetLen == 3
\* longest index array / index list handed in by a caller
MaxArrayLen == 2

----------------------------------------------------------------------------
(* Python helpers *)

None == <<>>
Some(x) == <<x>>
Opt(S) == {None} \cup {Some(x) : x \in S}

\* s[i] for a 0-based, in-range position i
At(s, i) == s[i + 1]

SeqsUpTo(S, n) == UNION {[1..m -> S] : m \in 0..n}

\* CPython's PySlice_AdjustIndices for one bound of the slice
AdjustBound(b, n, step, dflt) ==
    IF b = None THEN dflt
    ELSE LET x == b[1]
             y == IF x < 0 THEN x + n ELSE x
         IN  IF y < 0 THEN (IF step < 0 THEN -1 ELSE 0)
             ELSE IF y >= n THEN (IF step < 0 THEN n - 1 ELSE n)
             ELSE y

\* slice.indices(n) followed by the positions the slice selects, in order
SlicePositions(s, n) ==
    LET step == IF s.step = None THEN 1 ELSE s.step[1]
        start == AdjustBound(s.start, n, step, IF step < 0 THEN n - 1 ELSE 0)
        stop == AdjustBound(s.stop, n, step, IF step < 0 THEN -1 ELSE n)
        cnt == IF step > 0
               THEN (IF start < stop THEN ((stop - start - 1) \div step) + 1 ELSE 0)
               ELSE (IF stop < start THEN ((start - stop - 1) \div (-step)) + 1 ELSE 0)
    IN  [k \in 1..cnt |-> start + (k - 1) * step]

\* seq[s] for a slice s (lists and 1-D arrays agree)
ApplySlice(seq, s) ==
    LET pos == SlicePositions(s, Len(seq))
    IN  [k \in 1..Len(pos) |-> At(seq, pos[k])]

\* np.flatnonzero of a 1-D boolean array (1 is True, 0 is False)
RECURSIVE FlatNonZero(_, _)
FlatNonZero(data, from) ==
    IF from > Len(data) THEN <<>>
    ELSE (IF data[from] # 0 THEN <<from - 1>> ELSE <<>>) \o FlatNonZero(data, from + 1)

\* arr[idx] for a 1-D integer array idx on a 1-D array arr: negative positions
\* wrap once, anything else out of range raises IndexError
FancyInRange(arr, idx) ==
    \A k \in 1..Len(idx) : idx[k] >= -Len(arr) /\ idx[k] < Len(arr)

FancyIndex(arr, idx) ==
    [k \in 1..Len(idx) |->
        At(arr, IF idx[k] < 0 THEN idx[k] + Len(arr) ELSE idx[k])]

----------------------------------------------------------------------------
(* SliceDataset *)

\* the wrapped torch dataset object
TorchDs == "D"

\* dataset[j]: the sample object the wrapped dataset returns at position j
DatasetGetItem(ds, j) == [src |-> ds, row |-> j, transformed |-> 0]

\* len(dataset)
DatasetLength(ds) == DatasetLen

\* np.arange(n)
Arange(n) == [k \in 1..n |-> k - 1]

NoIndices == [t |-> "None", v |-> <<>>]
PyList(v) == [t |-> "list", v |-> v]
NdArray(v) == [t |-> "ndarray", v |-> v]

\* SliceDataset.__init__
SliceDatasetInit(cls, dataset, indices) ==
    [cls |-> cls,
     dataset |-> dataset,
     indices |-> indices,
     indices_ |-> IF indices.t # "None" THEN indices
                  ELSE NdArray(Arange(DatasetLength(dataset))),
     ndim |-> 1]

\* SliceDataset.__len__
SliceLen(v) == Len(v.indices_.v)

\* SliceDataset.transform; a subclass may override it ("Subclass" stands for
\* one that does, marking every sample it is given)
Transform(cls, data) ==
    IF cls = "SliceDataset" THEN data
    ELSE [data EXCEPT !.transformed = @ + 1]

\* index values handed to __getitem__
IntArg(t, k) ==
    [t |-> t, k |-> k, start |-> None, stop |-> None, step |-> None,
     ndim |-> 0, dtype |-> "", data |-> <<>>]
SliceArg(a, b, c) ==
    [t |-> "slice", k |-> 0, start |-> a, stop |-> b, step |-> c,
     ndim |-> 0, dtype |-> "", data |-> <<>>]
ArrayArg(ndim, dtype, data) ==
    [t |-> "ndarray", k |-> 0, start |-> None, stop |-> None, step |-> None,
     ndim |-> ndim, dtype |-> dtype, data |-> data]
NoArg == IntArg("", 0)

NoView == SliceDatasetInit("", "", PyList(<<>>))
NoSample == DatasetGetItem("", 0)

\* results of a call
Sample(x, reads) ==
    [kind |-> "sample", sample |-> x, view |-> NoView, exc |-> "", reads |-> reads]
View(v) ==
    [kind |-> "view", sample |-> NoSample, view |-> v, exc |-> "", reads |-> {}]
Raise(e) ==
    [kind |-> "raise", sample |-> NoSample, view |-> NoView, exc |-> e, reads |-> {}]
NoOut ==
    [kind |-> "none", sample |-> NoSample, view |-> NoView, exc |-> "", reads |-> {}]

\* a variant of the int branch that reads dataset[i] without mapping i through
\* the selected indices
GetItemIntUnmapped(v, i) ==
    LET n == SliceLen(v)
    IN  IF i.k < -n \/ i.k >= n THEN Raise("IndexError")
        ELSE LET j == IF i.k < 0 THEN i.k + n ELSE i.k
             IN  Sample(Transform(v.cls, DatasetGetItem(v.dataset, j)), {j})

\* __getitem__, the int / np.integer branch
GetItemInt(v, i) ==
    LET n == SliceLen(v)
    IN  IF i.k < -n \/ i.k >= n THEN Raise("IndexError")
        ELSE LET j == At(v.indices_.v, IF i.k < 0 THEN i.k + n ELSE i.k)
                 Xn == DatasetGetItem(v.dataset, j)
             IN  Sample(Transform(v.cls, Xn), {j})

\* __getitem__, the slice branch (slice steps of 0 are not modelled)
GetItemSlice(v, i) ==
    View(SliceDatasetInit("SliceDataset", v.dataset,
                          [t |-> v.indices_.t, v |-> ApplySlice(v.indices_.v, i)]))

\* self.indices_[i] for a 1-D integer array i
IndexByArray(v, idx) ==
    IF v.indices_.t = "list" THEN Raise("TypeError")
    ELSE IF ~FancyInRange(v.indices_.v, idx) THEN Raise("IndexError")
    ELSE View(SliceDatasetInit("SliceDataset", v.dataset,
                               NdArray(FancyIndex(v.indices_.v, idx))))

\* a variant of the np.ndarray branch without the check of ndim
GetItemArrayAnyDim(v, i, has_bool) ==
    IF ~has_bool THEN Raise("AttributeError")
    ELSE IndexByArray(v, IF i.dtype = "bool" THEN FlatNonZero(i.data, 1) ELSE i.data)

\* __getitem__, the np.ndarray branch; np.bool is read only on this path and
\* exists in some numpy releases only (has_bool)
GetItemArray(v, i, has_bool) ==
    IF i.ndim # 1 THEN Raise("IndexError")
    ELSE IF ~has_bool THEN Raise("AttributeError")
    ELSE IndexByArray(v, IF i.dtype = "bool" THEN FlatNonZero(i.data, 1) ELSE i.data)

\* SliceDataset.__getitem__
GetItemResult(v, i, has_bool) ==
    IF i.t \in {"int", "np.integer"} THEN GetItemInt(v, i)
    ELSE IF i.t = "slice" THEN GetItemSlice(v, i)
    ELSE GetItemArray(v, i, has_bool)

\* the indices a caller may hand in
IntArgs == {IntArg(t, k) : t \in {"int", "np.integer"}, k \in (-1)..DatasetLen}
SliceArgs ==
    {SliceArg(a, b, c) : a \in Opt({-1, 1}), b \in Opt({-1, 2}), c \in Opt({-1, 2})}
MaskArgs == {ArrayArg(1, "bool", d) : d \in SeqsUpTo({0, 1}, DatasetLen)}
IntArrayArgs ==
    {ArrayArg(1, "int", d) : d \in SeqsUpTo({-1, 0, DatasetLen - 1}, MaxArrayLen)}
BadDimArgs == {ArrayArg(0, "int", <<>>), ArrayArg(2, "int", <<>>), ArrayArg(2, "bool", <<>>)}
IndexArgs == IntArgs \cup SliceArgs \cup MaskArgs \cup IntArrayArgs \cup BadDimArgs

\* the indices= argument a caller may construct the root with
RootSeqs ==
    {<<>>, <<DatasetLen - 1, 0>>, [k \in 1..DatasetLen |-> DatasetLen - k]}
RootIndices ==
    {NoIndices} \cup {PyList(s) : s \in RootSeqs} \cup {NdArray(s) : s \in RootSeqs}

IsMatchingMask(v, i) ==
    i.t = "ndarray" /\ i.ndim = 1 /\ i.dtype = "bool" /\ Len(i.data) = SliceLen(v)

SliceInit ==
    /\ numpy_has_bool \in BOOLEAN
    /\ rootcls \in {"SliceDataset", "Subclass"}
    /\ \E ix \in RootIndices : self = SliceDatasetInit(rootcls, TorchDs, ix)
    /\ arg = NoArg
    /\ out = NoOut
    /\ parent = <<>>

\* the caller evaluates self[i]
GetItem(i) ==
    /\ arg' = i
    /\ out' = GetItemResult(self, i, numpy_has_bool)
    /\ UNCHANGED <<numpy_has_bool, rootcls, self, parent>>
    /\ UNCHANGED <<tf_vars, ts_vars>>

\* the caller evaluates self[arg][i], self[arg] being the view out holds
GetItemOfResult(i) ==
    /\ out.kind = "view"
    /\ self' = out.view
    /\ parent' = IF IsMatchingMask(self, arg)
                 THEN <<[view |-> self, i |-> arg]>> ELSE <<>>
    /\ arg' = i
    /\ out' = GetItemResult(out.view, i, numpy_has_bool)
    /\ UNCHANGED <<numpy_has_bool, rootcls>>
    /\ UNCHANGED <<tf_vars, ts_vars>>

SliceNext ==
    \/ \E i \in IndexArgs : GetItem(i)
    \/ \E i \in IndexArgs : GetItemOfResult(i)

----------------------------------------------------------------------------
(* Properties of SliceDataset *)

IsInt(i) == i.t \in {"int", "np.integer"}
IsIntArray(i) == i.t = "ndarray" /\ i.ndim = 1 /\ i.dtype = "int"

\* the samples a view yields under integer indexing, position by position
SamplesOf(v) ==
    [k \in 1..SliceLen(v) |-> GetItemInt(v, IntArg("int", k - 1)).sample]

\* C1: for a view v, a boolean mask m of length len(v) and a slice s, v[m] and
\* v[m][s] exist and v[m][s] has the same length and the same samples as v[p],
\* p being the integer positions s selects among the positions where m is true
\* (stated for an installation whose numpy defines np.bool).
C1_MaskThenSliceEqualsPositions ==
    numpy_has_bool =>
        /\ IsMatchingMask(self, arg) => out.kind = "view"
        /\ (parent # <<>> /\ arg.t = "slice") =>
              LET v == parent[1].view
                  m == parent[1].i
                  p == ApplySlice(FlatNonZero(m.data, 1), arg)
                  direct == GetItemResult(v, ArrayArg(1, "int", p), numpy_has_bool)
              IN  /\ out.kind = "view"
                  /\ direct.kind = "view"
                  /\ SliceLen(out.view) = SliceLen(direct.view)
                  /\ SamplesOf(out.view) = SamplesOf(direct.view)

\* Lemma: the composition law holds on views whose selected indices are a
\* numpy array.
Lemma_MaskThenSliceOnArrays ==
    numpy_has_bool =>
        /\ (IsMatchingMask(self, arg) /\ self.indices_.t = "ndarray") => out.kind = "view"
        /\ (parent # <<>> /\ arg.t = "slice") =>
              LET v == parent[1].view
                  m == parent[1].i
                  p == ApplySlice(FlatNonZero(m.data, 1), arg)
                  direct == GetItemResult(v, ArrayArg(1, "int", p), numpy_has_bool)
              IN  /\ out.kind = "view"
                  /\ direct.kind = "view"
                  /\ SliceLen(out.view) = SliceLen(direct.view)
                  /\ SamplesOf(out.view) = SamplesOf(direct.view)

Lemma_MaskThenSliceReached ==
    /\ parent # <<>> /\ arg.t = "slice" /\ out.kind = "view"
    /\ SliceLen(out.view) = 2
    /\ SliceLen(parent[1].view) = 3
    /\ out.view.indices_.v # Arange(2)

C4_SliceOrArrayGivesComposedView ==
    (numpy_has_bool /\ (arg.t = "slice" \/ (IsIntArray(arg) /\ FancyInRange(self.indices_.v, arg.data)))) =>
        /\ out.kind = "view"
        /\ out.view.cls = "SliceDataset"
        /\ out.view.dataset = self.dataset
        /\ out.view.dataset = TorchDs
        /\ out.view.indices_.v =
              (IF arg.t = "slice" THEN ApplySlice(self.indices_.v, arg)
               ELSE FancyIndex(self.indices_.v, arg.data))
        /\ SliceLen(out.view) =
              (IF arg.t = "slice" THEN Len(SlicePositions(arg, SliceLen(self)))
               ELSE Len(arg.data))
        /\ out.reads = {}

\* Lemma: slices compose on every view, integer arrays on views whose selected
\* indices are a numpy array.
Lemma_ComposedViewOnSupportedKinds ==
    (numpy_has_bool /\ (arg.t = "slice" \/ (IsIntArray(arg) /\ self.indices_.t = "ndarray"
                                             /\ FancyInRange(self.indices_.v, arg.data)))) =>
        /\ out.kind = "view"
        /\ out.view.cls = "SliceDataset"
        /\ out.view.dataset = TorchDs
        /\ out.view.indices_.v =
              (IF arg.t = "slice" THEN ApplySlice(self.indices_.v, arg)
               ELSE FancyIndex(self.indices_.v, arg.data))
        /\ out.reads = {}

\* C5: indexing with a numpy array whose ndim is not 1 raises IndexError,
\* returns no view, reads nothing from the underlying dataset and leaves the
\* receiver as it was.
C5_MultiDimArrayRaises ==
    [][(arg'.t = "ndarray" /\ arg'.ndim # 1) =>
          /\ out'.kind = "raise"
          /\ out'.exc = "IndexError"
          /\ out'.view = NoView
          /\ out'.reads = {}
          /\ (self' = self \/ (out.kind = "view" /\ self' = out.view))]_vars

C5_Reached ==
    /\ arg.t = "ndarray" /\ arg.ndim = 2 /\ out.kind = "raise"
    /\ parent # <<>>

\* C9: a view derived from an instance of a subclass that overrides transform
\* still returns transformed samples under integer indexing.
C9_DerivedViewsKeepTransform ==
    (rootcls = "Subclass" /\ IsInt(arg) /\ arg.k >= 0 /\ arg.k < SliceLen(self)) =>
        /\ out.kind = "sample"
        /\ out.sample =
              Transform(rootcls, DatasetGetItem(TorchDs, At(self.indices_.v, arg.k)))

----------------------------------------------------------------------------
(* Python values that may be shared by reference *)

NoneVal == [t |-> "None", s |-> "", a |-> 0]
Str(x) == [t |-> "str", s |-> x, a |-> 0]
ListRef(a) == [t |-> "list", s |-> "", a |-> a]
DictRef(a) == [t |-> "dict", s |-> "", a |-> a]

\* the same values written out (what == compares in Python)
NoneLit == [t |-> "None", s |-> "", v |-> <<>>]
StrLit(x) == [t |-> "str", s |-> x, v |-> <<>>]
ListLit(v) == [t |-> "list", s |-> "", v |-> v]

ValueOf(h, val) ==
    [t |-> val.t, s |-> val.s, v |-> IF val.t = "list" THEN h[val.a] ELSE <<>>]

Range(seq) == {seq[k] : k \in 1..Len(seq)}

Count(x, seq) == Cardinality({k \in 1..Len(seq) : seq[k] = x})

\* bool(val): None, "" and an empty list are falsy
Falsy(h, val) ==
    \/ val.t = "None"
    \/ val.t = "str" /\ val.s = ""
    \/ val.t = "list" /\ h[val.a] = <<>>

\* the caller builds the objects of a literal: a list literal is a new object
RECURSIVE AllocValues(_, _, _, _)
AllocValues(h, names, lits, acc) ==
    IF names = <<>> THEN [heap |-> h, vals |-> acc]
    ELSE LET n == Head(names)
             lit == lits[n]
         IN  IF lit.t = "list"
             THEN AllocValues(Append(h, lit.v), Tail(names), lits,
                              acc @@ (n :> ListRef(Len(h) + 1)))
             ELSE AllocValues(h, Tail(names), lits,
                              acc @@ (n :> [t |-> lit.t, s |-> lit.s, a |-> 0]))

----------------------------------------------------------------------------
(* TimeseriesFeatures *)

\* the dataclass fields, in declaration order
FieldNames ==
    <<"target", "static_categoricals", "static_reals",
      "time_varying_known_categoricals", "time_varying_known_reals",
      "time_varying_unknown_categoricals", "time_varying_unknown_reals">>

RoleNames == Tail(FieldNames)

\* none_or_empty, applied to every entry of vars(self): "ls or []" keeps a
\* truthy object and replaces a falsy one by a new empty list
RECURSIVE PostInit(_, _, _)
PostInit(h, names, f) ==
    IF names = <<>> THEN [heap |-> h, f |-> f]
    ELSE LET n == Head(names)
         IN  IF Falsy(h, f[n])
             THEN PostInit(Append(h, <<>>), Tail(names),
                           [f EXCEPT ![n] = ListRef(Len(h) + 1)])
             ELSE PostInit(h, Tail(names), f)

\* TimeseriesFeatures(...): the generated __init__ stores the arguments, then
\* __post_init__ runs
NewFeatures(h, a) == PostInit(h, FieldNames, [n \in Range(FieldNames) |-> a[n]])

\* TimeseriesFeatures.target_names
TargetNames(h, f) ==
    IF f.target.t = "list" THEN h[f.target.a] ELSE <<f.target.s>>

\* a variant of reals that concatenates the unknown reals before the known ones
RealsUnknownFirst(h, f) ==
    h[f.static_reals.a]
    \o h[f.time_varying_unknown_reals.a]
    \o h[f.time_varying_known_reals.a]

\* TimeseriesFeatures.reals
Reals(h, f) ==
    h[f.static_reals.a]
    \o h[f.time_varying_known_reals.a]
    \o h[f.time_varying_unknown_reals.a]

\* TimeseriesFeatures.categoricals
Categoricals(h, f) ==
    h[f.static_categoricals.a]
    \o h[f.time_varying_known_categoricals.a]
    \o h[f.time_varying_unknown_categoricals.a]

\* TimeseriesFeatures.as_dict (dataclasses.asdict copies every list)
AsDict(h, f) == [n \in Range(FieldNames) |-> ValueOf(h, f[n])]

\* arguments a caller may give for a role, and for the target
RoleLits(x) == {NoneLit, ListLit(<<>>), ListLit(<<x>>)}
TargetLits == {StrLit("y"), ListLit(<<"y">>), ListLit(<<"y", "z">>)}

FeatureLits ==
    {[target |-> t, static_categoricals |-> sc, static_reals |-> sr,
      time_varying_known_categoricals |-> kc, time_varying_known_reals |-> kr,
      time_varying_unknown_categoricals |-> uc, time_varying_unknown_reals |-> ur] :
        t \in TargetLits, sc \in RoleLits("g"), sr \in RoleLits("a"),
        kc \in RoleLits("h"), kr \in RoleLits("p"),
        uc \in RoleLits("c"), ur \in RoleLits("y")}

TfInit ==
    \E lit \in FeatureLits :
        LET al == AllocValues(<<>>, FieldNames, lit, <<>>)
        IN  /\ lists = al.heap
            /\ tf_args = al.vals
            /\ tf = al.vals
            /\ tf_pc = "new"

\* TimeseriesFeatures.__post_init__
TfPostInit ==
    /\ tf_pc = "new"
    /\ LET r == PostInit(lists, FieldNames, tf)
       IN  /\ lists' = r.heap
           /\ tf' = r.f
    /\ tf_pc' = "ready"
    /\ UNCHANGED tf_args
    /\ UNCHANGED <<slice_vars, encs, datasets, pf_fits_in_place, params, params_of, op>>

TfNext == TfPostInit

----------------------------------------------------------------------------
(* Properties of TimeseriesFeatures *)

\* the list a caller gave for a role, an omitted (None) role counting as empty
ArgList(n) == IF tf_args[n].t = "None" THEN <<>> ELSE lists[tf_args[n].a]

\* C6: after construction with any roles omitted or None every role attribute
\* is a list, reals and categoricals are the role lists concatenated static,
\* known, unknown, neither holds None, and target_names is the list of targets
\* also when the target was given as one string.
C6_FeaturesNormalised ==
    tf_pc = "ready" =>
        /\ \A n \in Range(RoleNames) : tf[n].t = "list" /\ lists[tf[n].a] = ArgList(n)
        /\ Reals(lists, tf) =
              ArgList("static_reals")
              \o ArgList("time_varying_known_reals")
              \o ArgList("time_varying_unknown_reals")
        /\ Categoricals(lists, tf) =
              ArgList("static_categoricals")
              \o ArgList("time_varying_known_categoricals")
              \o ArgList("time_varying_unknown_categoricals")
        /\ TargetNames(lists, tf) =
              (IF tf_args.target.t = "str" THEN <<tf_args.target.s>>
               ELSE lists[tf_args.target.a])

C6_Reached ==
    /\ tf_pc = "ready"
    /\ tf_args.target.t = "str"
    /\ tf_args.static_reals.t = "None"
    /\ tf_args.time_varying_known_categoricals.t = "None"
    /\ Reals(lists, tf) = <<"p", "y">>
    /\ Categoricals(lists, tf) = <<"g", "c">>

----------------------------------------------------------------------------
(* TimeseriesDataset *)

\* the parameters of TimeseriesDataset.__init__ other than self and data
ParamNames ==
    <<"time_idx", "target", "group_ids", "max_encoder_length",
      "min_encoder_length", "min_prediction_length", "max_prediction_length",
      "static_categoricals", "static_reals",
      "time_varying_known_categoricals", "time_varying_known_reals",
      "time_varying_unknown_categoricals", "time_varying_unknown_reals",
      "randomize_length", "add_encoder_length", "categorical_encoders",
      "predict_mode">>

\* an encoder object: its class, its warn flag, and the dataframe it was
\* fitted on (0: not fitted)
Encoder(cls, warn, fitted) == [cls |-> cls, warn |-> warn, fitted |-> fitted]

\* bool(categorical_encoders): None and an empty dict are falsy
EncodersGiven(e, val) == val.t = "dict" /\ DOMAIN e[val.a] # {}

\* TimeseriesDataset.get_default_scalers: the keys (every value is an
\* IdentityTransformer)
GetDefaultScalers(h, f) ==
    {r \in Range(Reals(h, f)) : r \notin Range(TargetNames(h, f))}

\* TimeseriesDataset.get_default_encoders
GetDefaultEncoders(h, f) ==
    [cat \in Range(Categoricals(h, f)) |-> Encoder("NaNLabelEncoder", TRUE, 0)]

\* a variant of the guard that looks for "encoder_length" among the static
\* reals only
NeedsEncoderLengthStaticOnly(h, add, f) ==
    add /\ "encoder_length" \notin Range(h[f.static_reals.a])

\* the guard of _create_pytorch_forecasting_ds
NeedsEncoderLength(h, add, f) ==
    add /\ "encoder_length" \notin Range(Reals(h, f))

\* a variant that appends whenever add_encoder_length is set
AddEncoderLengthAlways(h, add, f) ==
    IF add THEN [h EXCEPT ![f.static_reals.a] = Append(@, "encoder_length")] ELSE h

\* _create_pytorch_forecasting_ds, the in-place append to features.static_reals
AddEncoderLength(h, add, f) ==
    IF NeedsEncoderLength(h, add, f)
    THEN [h EXCEPT ![f.static_reals.a] = Append(@, "encoder_length")]
    ELSE h

\* what pytorch-forecasting's TimeSeriesDataSet does to the encoder dict it is
\* handed when it keeps the caller's object: encoders of categoricals that are
\* missing are created and fitted, unfitted ones are fitted, fitted ones kept
PfFit(dict, cats, data) ==
    [n \in (DOMAIN dict) \cup Range(cats) |->
        IF n \notin DOMAIN dict THEN Encoder("NaNLabelEncoder", FALSE, data)
        ELSE IF n \in Range(cats) /\ dict[n].fitted = 0
             THEN [dict[n] EXCEPT !.fitted = data]
        ELSE dict[n]]

\* a variant of the encoder choice that always builds the defaults
UseEncodersDefaultOnly(h, e, f, given) ==
    [encs |-> Append(e, GetDefaultEncoders(h, f)), ref |-> DictRef(Len(e) + 1)]

\* self.categorical_encoders = categorical_encoders or self.get_default_encoders()
UseEncoders(h, e, f, given) ==
    IF EncodersGiven(e, given) THEN [encs |-> e, ref |-> given]
    ELSE [encs |-> Append(e, GetDefaultEncoders(h, f)), ref |-> DictRef(Len(e) + 1)]

\* TimeseriesDataset.__init__ on argument values p and dataframe data; inplace
\* says whether the windowing library fits the encoder dict it is handed
NewDataset(h, e, data, p, inplace) ==
    LET post == NewFeatures(h, p)
        f == post.f
        use == UseEncoders(post.heap, e, f, p.categorical_encoders)
        h2 == AddEncoderLength(post.heap, p.add_encoder_length, f)
        handed == AsDict(h2, f)
        pfds == [data |-> data,
                 scalers |-> GetDefaultScalers(h2, f),
                 categorical_encoders |-> use.ref,
                 predict_mode |-> p.predict_mode,
                 features |-> handed]
        cats == handed.static_categoricals.v
                \o handed.time_varying_known_categoricals.v
                \o handed.time_varying_unknown_categoricals.v
        e2 == IF inplace
              THEN [use.encs EXCEPT ![use.ref.a] = PfFit(@, cats, data)]
              ELSE use.encs
    IN  [lists |-> h2,
         encs |-> e2,
         ds |-> [p EXCEPT !.categorical_encoders = use.ref]
                @@ [features |-> f, pytorch_forecasting_ds |-> pfds]]

\* TimeseriesDataset.get_parameters
GetParametersOf(d) == [n \in Range(ParamNames) |-> d[n]]

\* a variant of the copy that hands the same objects on
NoCopy(h, e, p) == [lists |-> h, encs |-> e, p |-> p]

\* copy.deepcopy(parameters): every list and the encoder dict are new objects
RECURSIVE CopyLists(_, _, _)
CopyLists(h, names, p) ==
    IF names = <<>> THEN [heap |-> h, p |-> p]
    ELSE LET n == Head(names)
         IN  IF p[n].t = "list"
             THEN CopyLists(Append(h, h[p[n].a]), Tail(names),
                            [p EXCEPT ![n] = ListRef(Len(h) + 1)])
             ELSE CopyLists(h, Tail(names), p)

DeepCopy(h, e, p) ==
    LET cl == CopyLists(h, FieldNames, p)
        ce == p.categorical_encoders
    IN  IF ce.t = "dict"
        THEN [lists |-> cl.heap,
              encs |-> Append(e, e[ce.a]),
              p |-> [cl.p EXCEPT !.categorical_encoders = DictRef(Len(e) + 1)]]
        ELSE [lists |-> cl.heap, encs |-> e, p |-> cl.p]

\* parameters.update(kwargs); an absent keyword is <<>>
Update(p, kw) ==
    [n \in DOMAIN p |-> IF n \in DOMAIN kw /\ kw[n] # <<>> THEN kw[n][1] ELSE p[n]]

\* TimeseriesDataset.from_parameters
FromParametersResult(h, e, parameters, data, kw, inplace) ==
    LET c == DeepCopy(h, e, parameters)
    IN  NewDataset(c.lists, c.encs, data, Update(c.p, kw), inplace)

\* values compared by ==
ParamsValue(h, e, p) ==
    [n \in DOMAIN p |->
        IF n \in Range(FieldNames) THEN ValueOf(h, p[n])
        ELSE IF n = "categorical_encoders"
             THEN IF p[n].t = "dict" THEN <<e[p[n].a]>> ELSE <<>>
        ELSE p[n]]

\* the configuration of a dataset: its constructor attributes, its features,
\* and what it handed to the windowing dataset
ConfigValue(h, e, d) ==
    [params |-> ParamsValue(h, e, GetParametersOf(d)),
     features |-> AsDict(h, d.features),
     scalers |-> d.pytorch_forecasting_ds.scalers,
     handed |-> d.pytorch_forecasting_ds.features]

----------------------------------------------------------------------------
(* The callers of TimeseriesDataset *)

\* most datasets a run builds
MaxDatasets == 3

\* the caller's arguments of the first construction
TsArgLits ==
    {[target |-> t, static_categoricals |-> sc, static_reals |-> sr,
      time_varying_known_categoricals |-> NoneLit, time_varying_known_reals |-> kr,
      time_varying_unknown_categoricals |-> NoneLit, time_varying_unknown_reals |-> ur] :
        t \in {StrLit("y"), ListLit(<<"y">>)},
        sc \in {NoneLit, ListLit(<<"g">>)},
        sr \in {NoneLit, ListLit(<<>>), ListLit(<<"a">>), ListLit(<<"encoder_length">>)},
        kr \in {NoneLit, ListLit(<<"encoder_length">>)},
        ur \in {ListLit(<<"y", "v">>)}}

\* the categorical_encoders argument: None, {} or one encoder of the caller's
EncoderArg(choice, e) ==
    IF choice = "None" THEN [encs |-> e, ref |-> NoneVal]
    ELSE IF choice = "empty" THEN [encs |-> Append(e, <<>>), ref |-> DictRef(Len(e) + 1)]
    ELSE [encs |-> Append(e, [n \in {"g"} |-> Encoder("CallerEncoder", FALSE, 0)]),
          ref |-> DictRef(Len(e) + 1)]

\* the scalar arguments (the defaults of __init__ and the example's values)
ScalarArgs(add) ==
    [time_idx |-> "date", group_ids |-> <<"g">>,
     max_encoder_length |-> Some(30), min_encoder_length |-> None,
     min_prediction_length |-> None, max_prediction_length |-> Some(1),
     randomize_length |-> FALSE, add_encoder_length |-> add,
     predict_mode |-> FALSE]

NoKwargs == [add_encoder_length |-> <<>>, static_reals |-> <<>>]

\* what the caller handed to a construction (history, not program state):
\* the dataset whose parameters were used (0: none), the keyword arguments,
\* the argument objects and their values as the call began
CallRecord(h, e, p, origin, kw) ==
    [origin |-> origin,
     kwargs |-> kw,
     static_reals |-> p.static_reals,
     categorical_encoders |-> p.categorical_encoders,
     encoders_given |-> EncodersGiven(e, p.categorical_encoders),
     args |-> ParamsValue(h, e, p)]

TsInit ==
    \E lit \in TsArgLits, add \in BOOLEAN, ec \in {"None", "empty", "custom"},
       inplace \in BOOLEAN :
        LET al == AllocValues(<<>>, FieldNames, lit, <<>>)
            ea == EncoderArg(ec, <<>>)
            p == al.vals @@ ScalarArgs(add) @@ [categorical_encoders |-> ea.ref]
            r == NewDataset(al.heap, ea.encs, 1, p, inplace)
        IN  /\ lists = r.lists
            /\ encs = r.encs
            /\ datasets = <<r.ds @@ [call |-> CallRecord(al.heap, ea.encs, p, 0, NoKwargs)]>>
            /\ pf_fits_in_place = inplace
            /\ params = <<>>
            /\ params_of = 0
            /\ op = "init"

\* the caller keeps d.get_parameters()
GetParameters(k) ==
    /\ params' = <<GetParametersOf(datasets[k])>>
    /\ params_of' = k
    /\ op' = "get_parameters"
    /\ UNCHANGED <<lists, encs, datasets, pf_fits_in_place>>
    /\ UNCHANGED <<slice_vars, tf_vars>>

\* the keyword arguments a caller may add to from_parameters; a list among
\* them is a new object of the caller's
KwChoices == {"none", "add_encoder_length", "static_reals"}

Kwargs(choice, h) ==
    IF choice = "add_encoder_length"
    THEN [NoKwargs EXCEPT !.add_encoder_length = <<TRUE>>]
    ELSE IF choice = "static_reals"
    THEN [NoKwargs EXCEPT !.static_reals = <<ListRef(Len(h) + 1)>>]
    ELSE NoKwargs

\* the caller evaluates TimeseriesDataset.from_parameters(params, new_data, **kw)
FromParameters(choice) ==
    /\ params # <<>>
    /\ Len(datasets) < MaxDatasets
    /\ LET h0 == IF choice = "static_reals" THEN Append(lists, <<"b">>) ELSE lists
           kw == Kwargs(choice, lists)
           data == Len(datasets) + 1
           r == FromParametersResult(h0, encs, params[1], data, kw, pf_fits_in_place)
           c == DeepCopy(h0, encs, params[1])
           call == CallRecord(c.lists, c.encs, Update(c.p, kw), params_of, kw)
       IN  /\ lists' = r.lists
           /\ encs' = r.encs
           /\ datasets' = Append(datasets, r.ds @@ [call |-> call])
    /\ op' = "from_parameters"
    /\ UNCHANGED <<params, params_of, pf_fits_in_place>>
    /\ UNCHANGED <<slice_vars, tf_vars>>

TsNext ==
    \/ \E k \in 1..Len(datasets) : GetParameters(k)
    \/ \E choice \in KwChoices : FromParameters(choice)

----------------------------------------------------------------------------
(* Properties of TimeseriesDataset *)

Dataset(k) == datasets[k]
Pf(k) == datasets[k].pytorch_forecasting_ds

\* the real-role and categorical-role arguments of the call that built dataset k
ArgReals(k) ==
    LET a == Dataset(k).call.args
    IN  a.static_reals.v \o a.time_varying_known_reals.v \o a.time_varying_unknown_reals.v
ArgCategoricals(k) ==
    LET a == Dataset(k).call.args
    IN  a.static_categoricals.v \o a.time_varying_known_categoricals.v
        \o a.time_varying_unknown_categoricals.v
ArgTargets(k) ==
    LET a == Dataset(k).call.args
    IN  IF a.target.t = "str" THEN {a.target.s} ELSE Range(a.target.v)

EncodersOf(k) == encs[Dataset(k).categorical_encoders.a]

IsRoundTripOf(k) ==
    Dataset(k).call.origin # 0 /\ Dataset(k).call.kwargs = NoKwargs

\* C3: n = from_parameters(d.get_parameters(), new_data) has d's
\* configuration: equal get_parameters() values, categorical encoders in the
\* same fitted state, scalers over the same real features.
C3_RoundTripKeepsConfiguration ==
    \A k \in 1..Len(datasets) :
        IsRoundTripOf(k) =>
            LET o == Dataset(k).call.origin
            IN  /\ ParamsValue(lists, encs, GetParametersOf(Dataset(k)))
                      = ParamsValue(lists, encs, GetParametersOf(Dataset(o)))
                /\ EncodersOf(k) = EncodersOf(o)
                /\ Pf(k).scalers = Pf(o).scalers
                /\ Pf(k).data # Pf(o).data

C3_Reached ==
    \E k \in 1..Len(datasets) :
        /\ IsRoundTripOf(k)
        /\ Dataset(Dataset(k).call.origin).call.args.static_reals.v = <<"a">>
        /\ Dataset(k).add_encoder_length
        /\ pf_fits_in_place
        /\ "g" \in DOMAIN EncodersOf(k)
        /\ EncodersOf(k)["g"].fitted = 1
        /\ Pf(k).scalers = {"a", "encoder_length", "v"}

ScalersAsClaimed(k) ==
    Pf(k).scalers =
        (Range(ArgReals(k))
         \cup (IF Dataset(k).call.args.add_encoder_length THEN {"encoder_length"} ELSE {}))
        \ ArgTargets(k)

DefaultEncodersInUse(k) ==
    /\ Pf(k).categorical_encoders = Dataset(k).categorical_encoders
    /\ DOMAIN EncodersOf(k) = Range(ArgCategoricals(k))
    /\ \A n \in DOMAIN EncodersOf(k) :
          EncodersOf(k)[n].cls = "NaNLabelEncoder" /\ EncodersOf(k)[n].warn

NoDefaultEncoderInUse(k) ==
    \A n \in DOMAIN EncodersOf(k) :
        ~(EncodersOf(k)[n].cls = "NaNLabelEncoder" /\ EncodersOf(k)[n].warn)

GivenEncodersInUse(k) ==
    /\ Dataset(k).categorical_encoders = Dataset(k).call.categorical_encoders
    /\ Pf(k).categorical_encoders = Dataset(k).call.categorical_encoders

C8_EncoderLengthOnce ==
    \A k \in 1..Len(datasets) :
        LET a == Dataset(k).call.args
            f == Dataset(k).features
            had == Count("encoder_length", ArgReals(k))
        IN  /\ (a.add_encoder_length /\ had <= 1) =>
                  /\ Count("encoder_length", Reals(lists, f)) = 1
                  /\ lists[f.static_reals.a] =
                        (IF had = 0 THEN Append(a.static_reals.v, "encoder_length")
                         ELSE a.static_reals.v)
            /\ ~a.add_encoder_length =>
                  /\ lists[f.static_reals.a] = a.static_reals.v
                  /\ a.static_reals.v # <<>> => f.static_reals = Dataset(k).call.static_reals

C8_Reached ==
    /\ Len(datasets) = 3
    /\ Dataset(1).call.args.static_reals.v = <<"a">>
    /\ Dataset(1).call.args.add_encoder_length
    /\ Dataset(2).call.origin = 1
    /\ Dataset(3).call.origin = 2
    /\ Dataset(3).call.args.static_reals.v = <<"a", "encoder_length">>
    /\ Reals(lists, Dataset(3).features) = <<"a", "encoder_length", "y", "v">>

\* C10: from_parameters leaves the parameters dict, every value in it and the
\* dataset the parameters came from as they were, also when the new dataset
\* appends the encoder-length feature; keyword arguments replace the
\* same-named parameters in the new dataset only.
C10_FromParametersLeavesParameters ==
    [][(op' = "from_parameters" /\ Len(datasets') = Len(datasets) + 1) =>
          LET new == datasets'[Len(datasets')]
              kw == new.call.kwargs
              was == ParamsValue(lists, encs, params[1])
              got == ParamsValue(lists', encs', GetParametersOf(new))
          IN  /\ params' = params
              /\ ParamsValue(lists', encs', params[1]) = was
              /\ \A k \in 1..Len(datasets) : datasets'[k] = datasets[k]
              /\ ConfigValue(lists', encs', datasets'[params_of])
                    = ConfigValue(lists, encs, datasets[params_of])
              /\ \A n \in DOMAIN kw : kw[n] # <<>> => new[n] = kw[n][1]
              /\ \A n \in Range(ParamNames) \ {"static_reals", "categorical_encoders"} :
                    (n \notin DOMAIN kw \/ kw[n] = <<>>) => got[n] = was[n]]_vars

C10_Reached ==
    /\ op = "from_parameters"
    /\ Len(datasets) = 2
    /\ ~Dataset(1).add_encoder_length
    /\ Dataset(2).add_encoder_length
    /\ lists[Dataset(1).features.static_reals.a] = <<"a">>
    /\ lists[Dataset(2).features.static_reals.a] = <<"a", "encoder_length">>
    /\ params_of = 1

----------------------------------------------------------------------------
(* Specifications *)

InitSlice ==
    /\ SliceInit
    /\ tf_args = <<>> /\ tf = <<>> /\ tf_pc = "idle"
    /\ lists = <<>> /\ encs = <<>> /\ datasets = <<>> /\ pf_fits_in_place = FALSE
    /\ params = <<>> /\ params_of = 0 /\ op = "idle"

InitFeatures ==
    /\ TfInit
    /\ numpy_has_bool = TRUE /\ rootcls = "" /\ self = NoView
    /\ arg = NoArg /\ out = NoOut /\ parent = <<>>
    /\ encs = <<>> /\ datasets = <<>> /\ pf_fits_in_place = FALSE
    /\ params = <<>> /\ params_of = 0 /\ op = "idle"

InitDataset ==
    /\ TsInit
    /\ numpy_has_bool = TRUE /\ rootcls = "" /\ self = NoView
    /\ arg = NoArg /\ out = NoOut /\ parent = <<>>
    /\ tf_args = <<>> /\ tf = <<>> /\ tf_pc = "idle"

SpecSlice == InitSlice /\ [][SliceNext]_vars

SpecFeatures == InitFeatures /\ [][TfNext]_vars

SpecDataset == InitDataset /\ [][TsNext]_vars

====
